---- MODULE Spec2Model ----
(***************************************************************************)
(* Setup-code decoder and pairing-badge renderer of src/Main.c:            *)
(* base36ToLong, codeFromSetupPayload, qrcodeSVGPath and                   *)
(* SVGBadgeFromSetupPayload, and the two handlers that use them,           *)
(* HttpSetupHandler and UpdateSetupPayloadEventHandler.                    *)
(*                                                                         *)
(* C strings are sequences of one-character strings; NUL is the            *)
(* terminator byte of a char buffer.  A uint64_t is a record [hi, lo] of   *)
(* value hi * 2^27 + lo, because the model checker's integers are 32 bits  *)
(* wide.  The float arithmetic of qrcodeSVGPath is carried out on exact    *)
(* fractions [n, d] and rounded once, by the "%.3f" conversion.            *)
(***************************************************************************)
EXTENDS Integers, Sequences, FiniteSets, TLC

VARIABLES
    connection,   \* send buffer of the mg_connection the last call wrote to
    last,         \* the last call: its arguments, return value and effects
    ref,          \* an earlier call, kept for comparison with later ones
    failed,       \* whether some render call has returned without a badge
    flags,        \* flags of the mg_connection
    setupDisplay, \* platform.hapPlatform.setupDisplay
    recent        \* the most recent update event: whether it carried a
                  \* payload, and which

\* The state of the server the handlers work on.
server == <<flags, setupDisplay, recent>>

vars == <<connection, last, ref, failed, flags, setupDisplay, recent>>

----------------------------------------------------------------------------
(* Characters *)

NUL == "NUL"

\* ASCII codes 45 ('-') to 90 ('Z'), in order.
AsciiFrom45 ==
    << "-", ".", "/", "0", "1", "2", "3", "4", "5", "6", "7", "8", "9",
       ":", ";", "<", "=", ">", "?", "@",
       "A", "B", "C", "D", "E", "F", "G", "H", "I", "J", "K", "L", "M",
       "N", "O", "P", "Q", "R", "S", "T", "U", "V", "W", "X", "Y", "Z" >>

Ord(c) == 44 + (CHOOSE i \in 1..Len(AsciiFrom45) : AsciiFrom45[i] = c)

\* strlen: the number of bytes before the first NUL.
RECURSIVE strlen(_)
strlen(s) ==
    IF s = <<>> \/ Head(s) = NUL THEN 0 ELSE 1 + strlen(Tail(s))

\* The C string held in a buffer, as "%s" prints it.
CStr(buf) == SubSeq(buf, 1, strlen(buf))

\* strncmp(s, t, n) == 0 for a literal t of n characters without NUL.
StrnEq(s, t, n) ==
    \A i \in 1..n : i <= Len(s) /\ s[i] = t[i]

----------------------------------------------------------------------------
(* uint64_t arithmetic on [hi, lo], value hi * 2^27 + lo *)

Mask27 == 134217727

Word == Mask27 + 1

U64(h, l) == [hi |-> h, lo |-> l]

U64Of(n) == U64(n \div Word, n % Word)

U64Add(a, b) ==
    U64(a.hi + b.hi + ((a.lo + b.lo) \div Word), (a.lo + b.lo) % Word)

\* u * n for 0 <= n <= 36, without an intermediate above 2^31.
U64Times(u, n) ==
    LET l0  == u.lo % 16384
        l1  == u.lo \div 16384
        b   == l1 * n
        low == (b % 8192) * 16384 + l0 * n
    IN  U64(u.hi * n + (b \div 8192) + (low \div Word), low % Word)

\* pow(36, i).  The doubles of Main.c:104 hold every value below 2^53
\* exactly, which covers the sums and products of strings of up to 10 digits.
RECURSIVE pow36(_)
pow36(i) == IF i = 0 THEN U64(0, 1) ELSE U64Times(pow36(i - 1), 36)

----------------------------------------------------------------------------
(* base36ToLong, Main.c:87-108 *)

\* As DigitValue, the comparison being >= 0x39.
DigitValueNineAsLetter(c) ==
    IF Ord(c) >= 57 THEN Ord(c) - Ord("A") + 10 ELSE Ord(c) - Ord("0")

\* The digit value of one character (Main.c:97-102).
DigitValue(c) ==
    IF Ord(c) > 57 THEN Ord(c) - Ord("A") + 10 ELSE Ord(c) - Ord("0")

\* The loop "while (len--)": len characters are left, i is the exponent.
RECURSIVE base36Loop(_, _, _, _)
base36Loop(s, len, i, result) ==
    IF len = 0 THEN result
    ELSE base36Loop(s, len - 1, i + 1,
                    U64Add(result, U64Times(pow36(i), DigitValue(s[len]))))

base36ToLong(base36String) ==
    base36Loop(base36String, strlen(base36String), 0, U64(0, 0))

----------------------------------------------------------------------------
(* codeFromSetupPayload, Main.c:112-130 *)

Prefix == << "X", "-", "H", "M", ":", "/", "/" >>

\* As ValidSetupPayload, only 6 characters of the prefix being compared.
ValidSetupPayloadPrefix6(setupPayload) ==
    strlen(setupPayload) = 20 /\ StrnEq(setupPayload, Prefix, 6)

\* The check of Main.c:113 and Main.c:177.
ValidSetupPayload(setupPayload) ==
    strlen(setupPayload) = 20 /\ StrnEq(setupPayload, Prefix, 7)

\* As ZeroSetupCode, without the initializer.
UninitializedSetupCode(garbage) == garbage

\* char setupCode[10] = { 0 }: the initializer overwrites what the stack held.
ZeroSetupCode(garbage) == [i \in 1..10 |-> NUL]

\* The copy loop of Main.c:118-122 into the zeroed buffer.
ExtractSetupCode(setupPayload, garbage) ==
    [i \in 1..10 |->
        IF i <= 9 THEN setupPayload[7 + i] ELSE ZeroSetupCode(garbage)[i]]

\* As And7ffffff, the mask being 0xfffffff.
Andfffffff(u) == u.lo + (u.hi % 2) * Word

\* x & 0x7ffffff
And7ffffff(u) == u.lo

codeFromSetupPayload(setupPayload, garbage) ==
    IF ValidSetupPayload(setupPayload)
    THEN And7ffffff(base36ToLong(ExtractSetupCode(setupPayload, garbage)))
    ELSE 0

----------------------------------------------------------------------------
(* printf conversions and string copies used by the renderer *)

Min(a, b) == IF a < b THEN a ELSE b

DigitChar(d) == AsciiFrom45[4 + d]

\* "%llu": the decimal digits of n, most significant first, no padding.
RECURSIVE DecimalString(_)
DecimalString(n) ==
    IF n < 10 THEN << DigitChar(n) >>
    ELSE Append(DecimalString(n \div 10), DigitChar(n % 10))

\* Fractions n / d with d > 0, standing for the float values.
Frac(n, d) == [n |-> n, d |-> d]

FracAdd(a, b) == Frac(a.n * b.d + b.n * a.d, a.d * b.d)

FracTimes(a, k) == Frac(a.n * k, a.d)

\* "%.3f": rounded to thousandths, ties to even, three decimals always.
Fixed3(f) ==
    LET q == (f.n * 1000) \div f.d
        r == (f.n * 1000) % f.d
        t == IF 2 * r > f.d \/ (2 * r = f.d /\ q % 2 = 1) THEN q + 1 ELSE q
        m == t % 1000
    IN  DecimalString(t \div 1000)
          \o << ".", DigitChar(m \div 100), DigitChar((m \div 10) % 10),
                DigitChar(m % 10) >>

\* The byte at 0-based offset off of a buffer; outside the buffer the read
\* is out of bounds and its value indeterminate.
ByteAt(buf, off) == IF off + 1 \in 1..Len(buf) THEN buf[off + 1] ELSE "?"

\* snprintf(buf, size, "%llu", n): at most size - 1 characters and a NUL;
\* the bytes behind the NUL keep what they held.
Snprintf(buf, size, str) ==
    LET k == Min(Len(str), size - 1)
    IN  [i \in 1..Len(buf) |->
            IF i <= k THEN str[i] ELSE IF i = k + 1 THEN NUL ELSE buf[i]]

\* The number of characters strncpy copies from src + off: up to n, up to
\* the first NUL.
RECURSIVE CopyLen(_, _, _)
CopyLen(src, off, n) ==
    IF n = 0 \/ ByteAt(src, off) = NUL THEN 0
    ELSE 1 + CopyLen(src, off + 1, n - 1)

\* strncpy(dst, src + off, n): the copied characters, then NUL padding up
\* to n bytes; dst keeps its bytes behind the n-th.
Strncpy(dst, src, off, n) ==
    LET k == CopyLen(src, off, n)
    IN  [i \in 1..Len(dst) |->
            IF i <= k THEN ByteAt(src, off + i - 1)
            ELSE IF i <= n THEN NUL ELSE dst[i]]

\* The 0-based offsets of src that strncpy(dst, src + off, n) reads.
StrncpyReads(src, off, n) ==
    LET k == CopyLen(src, off, n)
    IN  { off + j : j \in 0..Min(k, n - 1) }

----------------------------------------------------------------------------
(* The connection and the calls made on it *)

\* One mg_printf: its format (by name) and its converted arguments.
Write(fmt, args) == [fmt |-> fmt, args |-> args]

\* The running effect of a call: the send buffer and the calls made so far.
Printf(m, fmt, args) ==
    [m EXCEPT !.out = Append(@, Write(fmt, args)),
              !.events = Append(@, [call |-> "mg_printf", fmt |-> fmt,
                                    text |-> <<>>])]

\* qrcode_initText(&qrcode, qrcodeData, 3, 2, text) of the QR library.
InitText(m, text) ==
    [m EXCEPT !.events = Append(@, [call |-> "qrcode_initText", fmt |-> "",
                                    text |-> text])]

\* qrcode_getModule(&qrcode, x, y) of the QR library.
qrcode_getModule(qrcode, x, y) == <<x, y>> \in qrcode.modules

----------------------------------------------------------------------------
(* qrcodeSVGPath, Main.c:138-170 *)

\* The mg_printf of Main.c:156-163 for module (x, y).
SubPath(m, offsetX, offsetY, scale, x, y) ==
    Printf(m, "M%.3f,%.3fh%.3fv%.3fh-%.3fz",
           << Fixed3(FracAdd(offsetX, FracTimes(scale, x))),
              Fixed3(FracAdd(offsetY, FracTimes(scale, y))),
              Fixed3(scale), Fixed3(scale), Fixed3(scale) >>)

\* The two loops of Main.c:152-166, at module (x, y).
RECURSIVE PathLoop(_, _, _, _, _, _, _)
PathLoop(m, qrcode, offsetX, offsetY, scale, x, y) ==
    IF ~(y < qrcode.size) THEN m
    ELSE IF ~(x < qrcode.size)
         THEN PathLoop(m, qrcode, offsetX, offsetY, scale, 0, y + 1)
         ELSE PathLoop(IF qrcode_getModule(qrcode, x, y)
                       THEN SubPath(m, offsetX, offsetY, scale, x, y)
                       ELSE m,
                       qrcode, offsetX, offsetY, scale, x + 1, y)

\* As qrcodeSVGPath, the border being left out of the scale.
qrcodeSVGPathScaleWithoutBorder(m, qrcode, x_offset, y_offset, width) ==
    LET border  == 1
        scale   == Frac(width, qrcode.size)
        offsetX == FracAdd(Frac(x_offset, 1), FracTimes(scale, border))
        offsetY == FracAdd(Frac(y_offset, 1), FracTimes(scale, border))
        m1      == Printf(m, "<path d=\"", <<>>)
        m2      == PathLoop(m1, qrcode, offsetX, offsetY, scale, 0, 0)
    IN  Printf(m2, "\"/>", <<>>)

qrcodeSVGPath(m, qrcode, x_offset, y_offset, width) ==
    LET border  == 1
        scale   == Frac(width, qrcode.size + 2 * border)
        offsetX == FracAdd(Frac(x_offset, 1), FracTimes(scale, border))
        offsetY == FracAdd(Frac(y_offset, 1), FracTimes(scale, border))
        m1      == Printf(m, "<path d=\"", <<>>)
        m2      == PathLoop(m1, qrcode, offsetX, offsetY, scale, 0, 0)
    IN  Printf(m2, "\"/>", <<>>)

----------------------------------------------------------------------------
(* SVGBadgeFromSetupPayload, Main.c:174-257 *)

\* As ZeroCodeString, without the initializer.
UninitializedCodeString(garbage) == garbage

\* char codeString[8 + 1] = { 0 }
ZeroCodeString(garbage) == [i \in 1..9 |-> NUL]

\* char codeFirstHalf[5] = { 0 } and char codeSecondHalf[5] = { 0 }
ZeroHalf(garbage) == [i \in 1..5 |-> NUL]

\* As ExceedsLimit, the comparison being >=.
ExceedsLimitInclusive(code) == code >= 99999999

\* The comparison of Main.c:180.
ExceedsLimit(code) == code > 99999999

\* The format of Main.c:228.
FormatCode(code) == DecimalString(code)

\* As QRText, the code's digits being handed over.
QRTextOfCode(setupPayload, codeString) == CStr(codeString)

\* The text handed to qrcode_initText at Main.c:249.
QRText(setupPayload, codeString) == setupPayload

\* The static part of the badge, Main.c:185-225, one name per mg_printf.
StaticHead ==
    << "<?xml", "<svg", "<style", "<g><rect", "<g><path 1", "<path 2",
       "<path 3" >>

RECURSIVE PrintAll(_, _)
PrintAll(m, fmts) ==
    IF fmts = <<>> THEN m
    ELSE PrintAll(Printf(m, Head(fmts), <<>>), Tail(fmts))

\* As Returned, the XML declaration being written before the checks.
ReturnedAfterDeclaration(m) ==
    [m |-> Printf(m, "<?xml", <<>>), codeString |-> <<>>,
     codeFirstHalf |-> <<>>, codeSecondHalf |-> <<>>, reads |-> {}]

\* What a call that returns before its first write leaves behind.
Returned(m) ==
    [m |-> m, codeString |-> <<>>, codeFirstHalf |-> <<>>,
     codeSecondHalf |-> <<>>, reads |-> {}]

\* m: the connection's send buffer and the calls made so far; qrcode: what
\* qrcode_initText yields for the payload; garbage: what the stack holds
\* where the local buffers are placed.
SVGBadgeFromSetupPayload(setupPayload, m, qrcode, garbage) ==
    IF ~ValidSetupPayload(setupPayload) THEN Returned(m)
    ELSE
      LET code == codeFromSetupPayload(setupPayload, garbage.setupCode)
      IN  IF ExceedsLimit(code) THEN Returned(m)
          ELSE
            LET m1 == PrintAll(m, StaticHead)
                codeString ==
                    Snprintf(ZeroCodeString(garbage.codeString), 9,
                             FormatCode(code))
                codeFirstHalf ==
                    Strncpy(ZeroHalf(garbage.codeFirstHalf), codeString, 0, 4)
                codeSecondHalf ==
                    Strncpy(ZeroHalf(garbage.codeSecondHalf), codeString, 4, 4)
                m2 == Printf(m1, "<text>%s %s",
                             << CStr(codeFirstHalf), CStr(codeSecondHalf) >>)
                m3 == Printf(m2, "<rect", <<>>)
                m4 == InitText(m3, QRText(setupPayload, codeString))
                m5 == qrcodeSVGPath(m4, qrcode, 10, 74, 165)
                m6 == Printf(m5, "</g></svg>", <<>>)
            IN  [m |-> m6, codeString |-> codeString,
                 codeFirstHalf |-> codeFirstHalf,
                 codeSecondHalf |-> codeSecondHalf,
                 reads |-> StrncpyReads(codeString, 0, 4)
                             \cup StrncpyReads(codeString, 4, 4)]

----------------------------------------------------------------------------
(* Inputs *)

\* Tokens of 9 base-36 digits and the numbers they denote:
\*   000000000 = 0
\*   000000001 = 1
\*   00000003F = 123
\*   0000000YA = 1234
\*   0000009IX = 12345
\*   00000QGLJ = 1234567
\*   00007CLZI = 12345678
\*   0001NJCHR = 99999999
\*   0001NJCHS = 100000000
\*   00027WR27 = 0x7ffffff
\*   00027WR29 = 0x8000001
\*   000BAWDAM = 5 * 2^27 + 12345678
\*   ZZZZZZZZZ = 36^9 - 1
\*   0032SP5MT = 49 * 2^27 + 122813637
Tokens ==
    {
      << "0", "0", "0", "0", "0", "0", "0", "0", "0" >>,
      << "0", "0", "0", "0", "0", "0", "0", "0", "1" >>,
      << "0", "0", "0", "0", "0", "0", "0", "3", "F" >>,
      << "0", "0", "0", "0", "0", "0", "0", "Y", "A" >>,
      << "0", "0", "0", "0", "0", "0", "9", "I", "X" >>,
      << "0", "0", "0", "0", "0", "Q", "G", "L", "J" >>,
      << "0", "0", "0", "0", "7", "C", "L", "Z", "I" >>,
      << "0", "0", "0", "1", "N", "J", "C", "H", "R" >>,
      << "0", "0", "0", "1", "N", "J", "C", "H", "S" >>,
      << "0", "0", "0", "2", "7", "W", "R", "2", "7" >>,
      << "0", "0", "0", "2", "7", "W", "R", "2", "9" >>,
      << "0", "0", "0", "B", "A", "W", "D", "A", "M" >>,
      << "Z", "Z", "Z", "Z", "Z", "Z", "Z", "Z", "Z" >>,
      << "0", "0", "3", "2", "S", "P", "5", "M", "T" >>
    }

\* The 4 trailing characters of a payload.
Trailers == { << "0", "0", "0", "0" >>, << "E", "7", "Z", "9" >> }

WellFormedPayloads == { Prefix \o t \o tr : t \in Tokens, tr \in Trailers }

SamplePayload == Prefix \o << "0", "0", "0", "0", "7", "C", "L", "Z", "I" >>
                        \o << "0", "0", "0", "0" >>

\* Strings the check of Main.c:113 rejects: the empty string, the bare
\* prefix, 19 and 21 characters, and 20 characters with a wrong prefix.
MalformedPayloads ==
    { <<>>,
      Prefix,
      SubSeq(SamplePayload, 1, 19),
      Append(SamplePayload, "0"),
      [SamplePayload EXCEPT ![7] = "-"],
      [SamplePayload EXCEPT ![1] = "Y"] }

Payloads == WellFormedPayloads \cup MalformedPayloads

\* Arguments of base36ToLong: every suffix of every token (0 to 9 digits).
Base36Strings == { SubSeq(t, k, 9) : t \in Tokens, k \in 1..10 }

\* A QR code as the renderer reads it: its size and its dark modules.
QRCode(size, modules) == [size |-> size, modules |-> modules]

NoQRCode == QRCode(0, {})

\* Every QR code of the given size.
QRCodesOfSize(n) ==
    { QRCode(n, mods) : mods \in SUBSET ((0..(n - 1)) \X (0..(n - 1))) }

\* What the stack may hold where a local buffer is placed: zeros, or the
\* digits of an earlier frame.
Fill(c) ==
    [setupCode |-> [i \in 1..10 |-> c], codeString |-> [i \in 1..9 |-> c],
     codeFirstHalf |-> [i \in 1..5 |-> c],
     codeSecondHalf |-> [i \in 1..5 |-> c]]

StackGarbage == { Fill(NUL), Fill("8") }

\* What the connection's send buffer may hold when the renderer is called:
\* nothing, or the response line HttpSetupHandler sent (Main.c:271).
SendBuffers == { <<>>, << Write("HTTP/1.1 200", <<>>) >> }

\* What qrcode_initText may yield in a render call.
GeneratedQRCodes ==
    QRCodesOfSize(1)
      \cup { QRCode(2, { <<1, 0>>, <<0, 1>> }),
             QRCode(3, { <<0, 0>>, <<2, 0>>, <<1, 1>>, <<1, 2>> }) }

\* Largest QR code handed to qrcodeSVGPath directly.
MaxQRSize == 2

QRCodes == UNION { QRCodesOfSize(n) : n \in 1..MaxQRSize }

\* x_offset, y_offset and width of a direct qrcodeSVGPath call; the first
\* is the one of Main.c:251.
Geometries == { <<10, 74, 165>>, <<0, 3, 100>> }

----------------------------------------------------------------------------
(* State *)

\* static HAPPlatformAccessorySetupDisplay setupDisplay (Main.c:328): static
\* storage is zeroed.  The setup code is a string of 10 characters and the
\* setup payload one of 20, each with its terminator.
NoSetupDisplay ==
    [setupCode |-> [i \in 1..11 |-> NUL], setupCodeIsSet |-> FALSE,
     setupPayload |-> [i \in 1..21 |-> NUL], setupPayloadIsSet |-> FALSE]

NoCall ==
    [op |-> "none", arg |-> <<>>, before |-> <<>>,
     qrcode |-> NoQRCode, geom |-> <<>>, ret |-> U64(0, 0),
     appended |-> <<>>, events |-> <<>>, codeString |-> <<>>,
     codeFirstHalf |-> <<>>, codeSecondHalf |-> <<>>, reads |-> {},
     failedBefore |-> FALSE, ev |-> "", flagsBefore |-> {}]

\* What is kept of a call for comparison with later calls.
Memo(call) ==
    [op |-> call.op, arg |-> call.arg, qrcode |-> call.qrcode,
     ret |-> call.ret, appended |-> call.appended,
     failedBefore |-> call.failedBefore]

Init ==
    /\ connection = <<>>
    /\ last = NoCall
    /\ ref = Memo(NoCall)
    /\ failed = FALSE
    /\ flags = {}
    /\ setupDisplay = NoSetupDisplay
    /\ recent = [set |-> FALSE, payload |-> <<>>]

\* What a call appended to a send buffer that held `before`.
Suffix(before, after) == SubSeq(after, Len(before) + 1, Len(after))

\* The QR code of a render call, when the call asked for one.
UsedQRCode(events, qrcode) ==
    IF \E i \in 1..Len(events) : events[i].call = "qrcode_initText"
    THEN qrcode ELSE NoQRCode

----------------------------------------------------------------------------
(* Calls.  The handlers of the event loop run one at a time: a call      *)
(* begins when no other is under way.                                     *)

Idle == last.op = "none"

\* base36ToLong(base36String)
Base36ToLongCall(base36String) ==
    /\ Idle
    /\ last' = [NoCall EXCEPT !.op = "base36ToLong", !.arg = base36String,
                              !.before = connection,
                              !.ret = base36ToLong(base36String)]
    /\ UNCHANGED <<connection, failed>>

\* codeFromSetupPayload(setupPayload), the stack holding garbage
CodeCall(setupPayload, garbage) ==
    /\ Idle
    /\ last' = [NoCall EXCEPT
                  !.op = "codeFromSetupPayload", !.arg = setupPayload,
                  !.before = connection,
                  !.ret = U64Of(codeFromSetupPayload(setupPayload,
                                                     garbage.setupCode))]
    /\ UNCHANGED <<connection, failed>>

\* SVGBadgeFromSetupPayload(setupPayload, connection), qrcode_initText
\* yielding qrcode if it is called
BadgeCall(setupPayload, qrcode, garbage) ==
    /\ Idle
    /\ LET r == SVGBadgeFromSetupPayload(
                    setupPayload, [out |-> connection, events |-> <<>>],
                    qrcode, garbage)
       IN  /\ connection' = r.m.out
           /\ last' = [NoCall EXCEPT
                         !.op = "SVGBadgeFromSetupPayload",
                         !.arg = setupPayload, !.before = connection,
                         !.qrcode = UsedQRCode(r.m.events, qrcode),
                         !.appended = Suffix(connection, r.m.out),
                         !.events = r.m.events,
                         !.codeString = r.codeString,
                         !.codeFirstHalf = r.codeFirstHalf,
                         !.codeSecondHalf = r.codeSecondHalf,
                         !.reads = r.reads,
                         !.failedBefore = failed]
           /\ failed' = (failed \/ r.m.events = <<>>)

\* qrcodeSVGPath(connection, qrcode, x_offset, y_offset, width)
PathCall(qrcode, geom) ==
    /\ Idle
    /\ LET m == qrcodeSVGPath([out |-> connection, events |-> <<>>],
                              qrcode, geom[1], geom[2], geom[3])
       IN  /\ connection' = m.out
           /\ last' = [NoCall EXCEPT
                         !.op = "qrcodeSVGPath", !.qrcode = qrcode,
                         !.geom = geom, !.before = connection,
                         !.appended = Suffix(connection, m.out),
                         !.events = m.events]
    /\ UNCHANGED failed

\* The call has returned; the server sends what the buffer holds, closes
\* the connection and takes up another, whose buffer holds c.
NextConnection(c) ==
    /\ ~Idle
    /\ connection' = c
    /\ last' = NoCall
    /\ UNCHANGED failed

Base36ToLongStep ==
    \E s \in Base36Strings :
        Base36ToLongCall(s) /\ UNCHANGED <<ref, server>>

CodeFromSetupPayloadStep ==
    \E p \in Payloads, g \in StackGarbage :
        CodeCall(p, g) /\ UNCHANGED <<ref, server>>

SVGBadgeFromSetupPayloadStep ==
    \E p \in Payloads, q \in GeneratedQRCodes, g \in StackGarbage :
        BadgeCall(p, q, g) /\ UNCHANGED <<ref, server>>

QrcodeSVGPathStep ==
    \E q \in QRCodes, g \in Geometries :
        PathCall(q, g) /\ UNCHANGED <<ref, server>>

NextConnectionStep ==
    \E c \in SendBuffers : NextConnection(c) /\ UNCHANGED <<ref, server>>

Next ==
    \/ Base36ToLongStep
    \/ CodeFromSetupPayloadStep
    \/ SVGBadgeFromSetupPayloadStep
    \/ QrcodeSVGPathStep
    \/ NextConnectionStep

Spec == Init /\ [][Next]_vars

----------------------------------------------------------------------------
(* Sequences of calls, an earlier one remembered *)

SeqPayloads ==
    { Prefix \o << "0", "0", "0", "0", "0", "0", "0", "3", "F" >>
             \o << "0", "0", "0", "0" >>,
      SamplePayload,
      Prefix \o << "0", "0", "0", "1", "N", "J", "C", "H", "S" >>
             \o << "0", "0", "0", "0" >>,
      Prefix \o << "0", "0", "0", "2", "7", "W", "R", "2", "9" >>
             \o << "E", "7", "Z", "9" >>,
      SubSeq(SamplePayload, 1, 19),
      [SamplePayload EXCEPT ![7] = "-"] }

SeqQRCodes == { QRCode(1, { <<0, 0>> }), QRCode(2, { <<1, 0>>, <<0, 1>> }) }

\* The call just made is remembered, or the remembered one is kept.
Remember == ref' = ref \/ ref' = Memo(last')

SeqCode ==
    \E p \in SeqPayloads, g \in StackGarbage :
        CodeCall(p, g) /\ Remember /\ UNCHANGED server

SeqBadge ==
    \E p \in SeqPayloads, q \in SeqQRCodes, g \in StackGarbage :
        BadgeCall(p, q, g) /\ Remember /\ UNCHANGED server

NextSeq == SeqCode \/ SeqBadge \/ NextConnectionStep

SpecSeq == Init /\ [][NextSeq]_vars

----------------------------------------------------------------------------
(* UpdateSetupPayloadEventHandler, Main.c:286-311 *)

\* A pointer argument of the event: NULL, or a struct whose stringValue
\* holds the string s in size bytes.
Null == [null |-> TRUE, stringValue |-> <<>>]

StringStruct(s, size) ==
    [null |-> FALSE,
     stringValue |-> [i \in 1..size |-> IF i <= Len(s) THEN s[i] ELSE NUL]]

\* if (arg->setupCode) ... else ..., Main.c:290-299
StoreSetupCode(display, setupCode) ==
    IF ~setupCode.null
    THEN [display EXCEPT !.setupCode = setupCode.stringValue,
                         !.setupCodeIsSet = TRUE]
    ELSE [display EXCEPT !.setupCode = [i \in 1..11 |-> NUL],
                         !.setupCodeIsSet = FALSE]

\* As StoreSetupPayload, the else branch (Main.c:307-310) missing.
StoreSetupPayloadWithoutElse(display, setupPayload) ==
    IF ~setupPayload.null
    THEN [display EXCEPT !.setupPayload = setupPayload.stringValue,
                         !.setupPayloadIsSet = TRUE]
    ELSE display

\* if (arg->setupPayload) ... else ..., Main.c:300-310
StoreSetupPayload(display, setupPayload) ==
    IF ~setupPayload.null
    THEN [display EXCEPT !.setupPayload = setupPayload.stringValue,
                         !.setupPayloadIsSet = TRUE]
    ELSE [display EXCEPT !.setupPayload = [i \in 1..21 |-> NUL],
                         !.setupPayloadIsSet = FALSE]

UpdateSetupPayloadEventHandler(display, setupCode, setupPayload) ==
    StoreSetupPayload(StoreSetupCode(display, setupCode), setupPayload)

----------------------------------------------------------------------------
(* HttpSetupHandler, Main.c:259-282 *)

\* mg_send_response_line(c, 200, headers): the status line and the headers
\* go to the send buffer.
SendResponseLine(m, headers) ==
    [m EXCEPT !.out = Append(@, Write("HTTP/1.1 200 " \o headers, <<>>)),
              !.events = Append(@, [call |-> "mg_send_response_line",
                                    fmt |-> headers, text |-> <<>>])]

\* What the handler leaves: the connection's send buffer and flags, the
\* calls made, and what the renderer left if it was called.
Handled(m, fl, badge) == [m |-> m, flags |-> fl, badge |-> badge]

HttpSetupHandler(m, fl, ev, display, qrcode, garbage) ==
    IF ev # "MG_EV_HTTP_REQUEST" THEN Handled(m, fl, Returned(m))
    ELSE IF display.setupPayloadIsSet
         THEN LET payload == CStr(display.setupPayload)
                  m1 == SendResponseLine(m, "Content-Type: image/svg+xml\r\n")
                  badge == SVGBadgeFromSetupPayload(payload, m1, qrcode,
                                                    garbage)
              IN  Handled(badge.m, fl \cup { "MG_F_SEND_AND_CLOSE" }, badge)
         ELSE LET m1 == SendResponseLine(m, "Content-Type: text/text\r\n")
                  m2 == Printf(m1, "%s\r\n",
                          << << "No setup payload is set. Already paired?" >> >>)
              IN  Handled(m2, fl \cup { "MG_F_SEND_AND_CLOSE" }, Returned(m2))

----------------------------------------------------------------------------
(* The server: update events and events on a connection, in any order *)

\* The setup code and the setup payloads of update events: the payloads
\* of SeqPayloads, none longer than the 20 characters the struct holds.
UpdateCodes ==
    { Null,
      StringStruct(<< "1", "1", "1", "-", "2", "2", "-", "3", "3", "3" >>,
                   11) }

UpdatePayloads == { Null } \cup { StringStruct(p, 21) : p \in SeqPayloads }

\* The events mongoose hands to the endpoint's handler.
ConnectionEvents == { "MG_EV_HTTP_REQUEST", "MG_EV_POLL", "MG_EV_CLOSE" }

\* The flags of a connection when its handler is first called.
ConnectionFlags == { {}, { "MG_F_USER_1" } }

\* MGOS_HAP_EV_DISPLAY_UPDATE_SETUP_PAYLOAD with the given arguments
UpdateCall(setupCode, setupPayload) ==
    /\ Idle
    /\ setupDisplay' =
          UpdateSetupPayloadEventHandler(setupDisplay, setupCode,
                                         setupPayload)
    /\ recent' = [set |-> ~setupPayload.null,
                  payload |-> CStr(setupPayload.stringValue)]
    /\ last' = [NoCall EXCEPT !.op = "UpdateSetupPayloadEventHandler",
                              !.arg = CStr(setupPayload.stringValue),
                              !.before = connection,
                              !.flagsBefore = flags]
    /\ UNCHANGED <<connection, flags, failed, ref>>

\* HttpSetupHandler(c, ev, p, user_data) on the connection
HttpCall(ev, qrcode, garbage) ==
    /\ Idle
    /\ LET r == HttpSetupHandler([out |-> connection, events |-> <<>>],
                                 flags, ev, setupDisplay, qrcode, garbage)
       IN  /\ connection' = r.m.out
           /\ flags' = r.flags
           /\ last' = [NoCall EXCEPT
                         !.op = "HttpSetupHandler", !.ev = ev,
                         !.arg = CStr(setupDisplay.setupPayload),
                         !.before = connection, !.flagsBefore = flags,
                         !.qrcode = UsedQRCode(r.m.events, qrcode),
                         !.appended = Suffix(connection, r.m.out),
                         !.events = r.m.events,
                         !.codeString = r.badge.codeString,
                         !.codeFirstHalf = r.badge.codeFirstHalf,
                         !.codeSecondHalf = r.badge.codeSecondHalf,
                         !.reads = r.badge.reads,
                         !.failedBefore = failed]
           /\ failed' = (failed \/ (ev = "MG_EV_HTTP_REQUEST"
                                     /\ setupDisplay.setupPayloadIsSet
                                     /\ Len(r.m.events) = 1))
    /\ UNCHANGED <<setupDisplay, recent, ref>>

\* The handler has returned; the server takes up another connection, its
\* send buffer empty.
Accept(fl) ==
    /\ ~Idle
    /\ connection' = <<>>
    /\ flags' = fl
    /\ last' = NoCall
    /\ UNCHANGED <<setupDisplay, recent, ref, failed>>

UpdateStep ==
    \E code \in UpdateCodes, payload \in UpdatePayloads :
        UpdateCall(code, payload)

HttpStep ==
    \E ev \in ConnectionEvents, q \in SeqQRCodes, g \in StackGarbage :
        HttpCall(ev, q, g)

AcceptStep == \E fl \in ConnectionFlags : Accept(fl)

NextHttp == UpdateStep \/ HttpStep \/ AcceptStep

SpecHttp == Init /\ [][NextHttp]_vars

----------------------------------------------------------------------------
(* What the specification says, stated without the code's operators *)

\* The shape of a setup payload: 20 characters, the first 7 "X-HM://".
HasShape(p) == Len(p) = 20 /\ SubSeq(p, 1, 7) = Prefix

\* The base-36 digits in order of value.
Digits36 ==
    << "0", "1", "2", "3", "4", "5", "6", "7", "8", "9",
       "A", "B", "C", "D", "E", "F", "G", "H", "I", "J", "K", "L", "M",
       "N", "O", "P", "Q", "R", "S", "T", "U", "V", "W", "X", "Y", "Z" >>

DigitOf(c) == (CHOOSE i \in 1..36 : Digits36[i] = c) - 1

\* The value of a numeral, most significant digit first, as a uint64.
RECURSIVE NumeralValue(_)
NumeralValue(token) ==
    IF token = <<>> THEN U64(0, 0)
    ELSE U64Add(U64Times(NumeralValue(SubSeq(token, 1, Len(token) - 1)), 36),
                U64Of(DigitOf(token[Len(token)])))

\* The uint64 written in decimal as the digits ds.
RECURSIVE Decimal(_)
Decimal(ds) ==
    IF ds = <<>> THEN U64(0, 0)
    ELSE U64Add(U64Times(Decimal(SubSeq(ds, 1, Len(ds) - 1)), 10),
                U64Of(ds[Len(ds)]))

\* The value of a numeral modulo 2^27: its low 27 bits.
RECURSIVE Low27(_)
Low27(token) ==
    IF token = <<>> THEN 0
    ELSE LET t == Low27(SubSeq(token, 1, Len(token) - 1))
         IN  (((((t * 6) % Word) * 6) % Word) + DigitOf(token[Len(token)]))
               % Word

\* The 9 characters behind the prefix, and the setup code they carry.
TokenOf(p) == SubSeq(p, 8, 16)

CodeOf(p) == Low27(TokenOf(p))

\* The payloads a badge is rendered for.
Renderable(p) == HasShape(p) /\ CodeOf(p) <= 99999999

\* The calls by name.
IsBase36Call == last.op = "base36ToLong"

IsCodeCall == last.op = "codeFromSetupPayload"

IsBadgeCall == last.op = "SVGBadgeFromSetupPayload"

IsPathCall == last.op = "qrcodeSVGPath"

\* The last call rendered a badge.
Rendered == IsBadgeCall /\ last.appended # <<>>

\* The call added nothing to the connection's send buffer.
NothingWritten == connection = last.before /\ last.appended = <<>>

----------------------------------------------------------------------------
(* Claims *)

\* C1: for every payload whose length is not 20 or whose first 7
\* characters are not "X-HM://", codeFromSetupPayload returns 0 and
\* SVGBadgeFromSetupPayload appends nothing to the connection.
C1_MalformedRejected ==
    ~HasShape(last.arg) =>
        /\ IsCodeCall => last.ret = U64(0, 0)
        /\ IsBadgeCall => NothingWritten /\ last.events = <<>>

\* A render call on a connection that already holds the response line,
\* with a payload of 20 characters and a wrong prefix.
C1_Witness ==
    /\ IsBadgeCall
    /\ Len(last.arg) = 20 /\ ~HasShape(last.arg)
    /\ last.before # <<>>
    /\ connection = last.before

\* C2: for every string of up to 9 base-36 digits, base36ToLong returns
\* the value of the string read as a numeral, most significant digit
\* first; "000000000" gives 0, "000000001" gives 1 and "ZZZZZZZZZ" gives
\* 36^9 - 1 = 101559956668415.
C2_Base36Value ==
    IsBase36Call =>
        /\ last.ret = NumeralValue(last.arg)
        /\ last.arg = << "0", "0", "0", "0", "0", "0", "0", "0", "0" >>
              => last.ret = U64(0, 0)
        /\ last.arg = << "0", "0", "0", "0", "0", "0", "0", "0", "1" >>
              => last.ret = U64(0, 1)
        /\ last.arg = << "Z", "Z", "Z", "Z", "Z", "Z", "Z", "Z", "Z" >>
              => last.ret =
                   Decimal(<< 1, 0, 1, 5, 5, 9, 9, 5, 6, 6, 6, 8, 4, 1, 5 >>)

\* base36ToLong("ZZZZZZZZZ") has returned a value above 2^27.
C2_Witness ==
    /\ IsBase36Call
    /\ last.arg = << "Z", "Z", "Z", "Z", "Z", "Z", "Z", "Z", "Z" >>
    /\ last.ret.hi > 0

\* C3: for every well-formed payload, codeFromSetupPayload returns the
\* value of characters 7..15 ANDed with 0x7FFFFFF: the low 27 bits, whatever
\* the 4 trailing characters, without a clamp to 99999999; the token of
\* value 0x8000001 yields 1.
C3_CodeIsLow27Bits ==
    (IsCodeCall /\ HasShape(last.arg)) =>
        /\ last.ret = U64(0, CodeOf(last.arg))
        /\ last.ret.lo \in 0..Mask27
        /\ TokenOf(last.arg) = << "0", "0", "0", "2", "7", "W", "R", "2", "9" >>
              => last.ret = U64(0, 1)

\* codeFromSetupPayload on the token of value 0x8000001 has returned 1.
C3_Witness ==
    /\ IsCodeCall /\ HasShape(last.arg)
    /\ TokenOf(last.arg) = << "0", "0", "0", "2", "7", "W", "R", "2", "9" >>
    /\ last.ret = U64(0, 1)

\* C4: for every well-formed payload, SVGBadgeFromSetupPayload writes a
\* badge iff the code is <= 99999999; above, it returns before the first
\* write and the connection holds what it held.
C4_BadgeIffInRange ==
    (IsBadgeCall /\ HasShape(last.arg)) =>
        /\ Rendered <=> CodeOf(last.arg) <= 99999999
        /\ CodeOf(last.arg) > 99999999 => NothingWritten
        /\ Rendered => last.appended[Len(last.appended)].fmt = "</g></svg>"

\* A render call with code 100000000 on a connection that holds the
\* response line has written nothing.
C4_Witness ==
    /\ IsBadgeCall /\ HasShape(last.arg)
    /\ CodeOf(last.arg) = 100000000
    /\ last.before # <<>>
    /\ connection = last.before

\* A render call with code 99999999 has written a badge.
C4_WitnessRendered ==
    /\ Rendered
    /\ CodeOf(last.arg) = 99999999

\* The decimal digits of n, padded with zeros on the left to 8 digits.
ZeroPadded8(n) ==
    LET ds == DecimalString(n)
    IN  [i \in 1..(8 - Len(ds)) |-> "0"] \o ds

\* The text element of a rendered badge: its two halves.
TextHalves ==
    LET w == CHOOSE w \in { last.appended[i] : i \in 1..Len(last.appended) } :
                 w.fmt = "<text>%s %s"
    IN  w.args

\* C5: for every well-formed payload with code <= 99999999, firstHalf
\* followed by secondHalf, as emitted on the badge, are the digits of the
\* code's zero-padded 8-digit decimal representation.
C5_HalvesAreZeroPadded ==
    Rendered => TextHalves[1] \o TextHalves[2] = ZeroPadded8(CodeOf(last.arg))

\* The modules of a QR code of size n in row-major order: row 0 from
\* x = 0 to n - 1, then row 1, ...
RowMajor(n) == [k \in 1..(n * n) |-> << (k - 1) % n, (k - 1) \div n >>]

\* The dark modules of a QR code in row-major order.
DarkInRowMajor(qrcode) ==
    SelectSeq(RowMajor(qrcode.size), LAMBDA c : c \in qrcode.modules)

\* The closed square of module c, for scale = width / (size + 2): move to
\* (x_offset + (1 + x) * scale, y_offset + (1 + y) * scale), h scale,
\* v scale, h -scale, z.
Square(qrcode, x_offset, y_offset, width, c) ==
    LET d == qrcode.size + 2
    IN  Write("M%.3f,%.3fh%.3fv%.3fh-%.3fz",
              << Fixed3(Frac(x_offset * d + (1 + c[1]) * width, d)),
                 Fixed3(Frac(y_offset * d + (1 + c[2]) * width, d)),
                 Fixed3(Frac(width, d)), Fixed3(Frac(width, d)),
                 Fixed3(Frac(width, d)) >>)

\* The path element of a QR code: its opening, one square per dark module
\* in row-major order, its end.
PathElement(qrcode, x_offset, y_offset, width) ==
    LET dark == DarkInRowMajor(qrcode)
    IN  << Write("<path d=\"", <<>>) >>
          \o [i \in 1..Len(dark) |->
                 Square(qrcode, x_offset, y_offset, width, dark[i])]
          \o << Write("\"/>", <<>>) >>

\* C6: for every QR matrix of side N, qrcodeSVGPath with border 1 and
\* width W uses scale = W / (N + 2) and emits, inside one path element, one
\* closed square per dark module, nothing for the others, in row-major
\* order; the number of squares is the number of dark modules.
C6_OneSquarePerDarkModule ==
    /\ IsPathCall =>
          /\ last.appended =
                PathElement(last.qrcode, last.geom[1], last.geom[2],
                            last.geom[3])
          /\ Len(last.appended) = Cardinality(last.qrcode.modules) + 2
          /\ connection = last.before \o last.appended
    /\ Rendered =>
          SubSeq(last.appended, 10, Len(last.appended) - 1) =
              PathElement(last.qrcode, 10, 74, 165)

\* qrcodeSVGPath has drawn a QR code of size 2 whose dark modules are
\* (1, 0) and (0, 1), for a width its size + 2 does not divide.
C6_Witness ==
    /\ IsPathCall
    /\ last.qrcode = QRCode(2, { <<1, 0>>, <<0, 1>> })
    /\ last.geom = <<10, 74, 165>>
    /\ Len(last.appended) = 4

\* The same call as the one remembered: same function, same payload, and
\* the same QR matrix from the generator.
SameCallAsRemembered ==
    /\ IsCodeCall \/ IsBadgeCall
    /\ ref.op = last.op /\ ref.arg = last.arg /\ ref.qrcode = last.qrcode

\* C7: two calls of SVGBadgeFromSetupPayload with the same payload and the
\* same QR matrix append the same output, and two calls of
\* codeFromSetupPayload with the same payload return the same value,
\* whatever calls were made in between.
C7_SameInputSameOutput ==
    SameCallAsRemembered =>
        last.appended = ref.appended /\ last.ret = ref.ret

\* A badge rendered a second time for the same payload and QR matrix.
C7_Witness ==
    /\ SameCallAsRemembered
    /\ Rendered
    /\ last.qrcode.size = 2
    /\ ref.appended # <<>>

\* C8: a render call that fails leaves nothing behind: the connection
\* holds what it held, and a badge rendered after failed calls is the one
\* rendered for the same payload and QR matrix before any call had failed.
C8_FailedCallLeavesNothing ==
    /\ (IsBadgeCall /\ ~Renderable(last.arg)) =>
          connection = last.before /\ last.events = <<>>
    /\ (SameCallAsRemembered /\ IsBadgeCall /\ Renderable(last.arg)
          /\ last.failedBefore /\ ~ref.failedBefore) =>
          last.appended = ref.appended

\* A badge rendered after a failed call, the same badge having been
\* rendered before any call had failed.
C8_Witness ==
    /\ SameCallAsRemembered /\ Rendered
    /\ last.failedBefore /\ ~ref.failedBefore
    /\ last.appended = ref.appended

\* The formats of a sequence of writes, and of the mg_printf calls among a
\* sequence of events.
Formats(ws) == [i \in 1..Len(ws) |-> ws[i].fmt]

Printed(events) ==
    Formats(SelectSeq(events, LAMBDA e : e.call = "mg_printf"))

\* The positions of the qrcode_initText calls among the events.
InitTextAt(events) ==
    { i \in 1..Len(events) : events[i].call = "qrcode_initText" }

\* C9: a successful render appends, in this order, the XML declaration,
\* the SVG root, the static style, background and logo, one text element
\* with firstHalf then secondHalf, the white rectangle, one path element
\* and the document end; qrcode_initText is called once, after the text is
\* written, on the 20-character payload; a render that aborts does not
\* call it.
C9_OrderOfOutput ==
    /\ Rendered =>
          /\ connection = last.before \o last.appended
          /\ Formats(last.appended) =
                << "<?xml", "<svg", "<style", "<g><rect", "<g><path 1",
                   "<path 2", "<path 3", "<text>%s %s", "<rect",
                   "<path d=\"" >>
                  \o [i \in 1..Cardinality(last.qrcode.modules) |->
                         "M%.3f,%.3fh%.3fv%.3fh-%.3fz"]
                  \o << "\"/>", "</g></svg>" >>
          /\ last.appended[8].args =
                << CStr(last.codeFirstHalf), CStr(last.codeSecondHalf) >>
          /\ Printed(last.events) = Formats(last.appended)
          /\ InitTextAt(last.events) = { 10 }
          /\ last.events[8].fmt = "<text>%s %s"
          /\ last.events[10].text = last.arg /\ Len(last.arg) = 20
    /\ (IsBadgeCall /\ ~Rendered) => InitTextAt(last.events) = {}

\* A badge rendered with a QR code of 4 dark modules.
C9_Witness ==
    /\ Rendered
    /\ Cardinality(last.qrcode.modules) = 4
    /\ Len(last.appended) = 16

\* C10: with a decimal string of len < 8 characters, firstHalf is its first
\* min(4, len) characters and secondHalf the characters from index 4 on,
\* shorter than 4 when len < 8 and empty when len <= 4; the copy from
\* offset 4 reads inside the 9 bytes of codeString.
C10_HalvesWithoutPadding ==
    Rendered =>
        LET str == DecimalString(CodeOf(last.arg))
            len == Len(str)
        IN  /\ CStr(last.codeString) = str
            /\ TextHalves[1] = SubSeq(str, 1, Min(4, len))
            /\ TextHalves[2] = IF len <= 4 THEN <<>> ELSE SubSeq(str, 5, len)
            /\ len < 8 => Len(TextHalves[2]) < 4
            /\ Len(last.codeString) = 9
            /\ last.reads \subseteq 0..8
            /\ 4 \in last.reads

\* A badge rendered for a code below 1000: the terminator of the decimal
\* string lies before offset 4.
C10_Witness ==
    /\ Rendered
    /\ CodeOf(last.arg) = 123
    /\ strlen(last.codeString) < 4
    /\ TextHalves = << << "1", "2", "3" >>, <<>> >>

\* The handler has been called on the connection, with an HTTP request or
\* with another event.
IsHttpCall == last.op = "HttpSetupHandler"

IsRequest == IsHttpCall /\ last.ev = "MG_EV_HTTP_REQUEST"

\* The response line with the given content type.
ResponseLine(type) ==
    Write("HTTP/1.1 200 Content-Type: " \o type \o "\r\n", <<>>)

\* The response lines sent in the call.
ResponseLinesSent ==
    SelectSeq(last.events, LAMBDA e : e.call = "mg_send_response_line")

\* What follows the response line in the send buffer.
Body == Tail(last.appended)

\* The badge rendered from payload p with the QR code of the call: what
\* the renderer writes for it, nothing if it does not render.
BadgeOf(p) ==
    SVGBadgeFromSetupPayload(p, [out |-> <<>>, events |-> <<>>],
                             last.qrcode, Fill(NUL)).m.out

\* C11: after any sequence of setup-payload update events and HTTP
\* events, HttpSetupHandler on an HTTP request sends exactly one response
\* line and flags the connection send-and-close; setupPayloadIsSet is true
\* exactly if the most recent update event carried a payload, and then the
\* answer has the SVG content type and the badge rendered from that
\* payload, otherwise it is the text 'No setup payload is set' reply; a
\* stored payload that is malformed or whose code is out of range gets the
\* SVG response line and an empty body; any other event leaves the
\* connection untouched.
C11_AnswerFollowsMostRecentUpdate ==
    /\ setupDisplay.setupPayloadIsSet = recent.set
    /\ recent.set => CStr(setupDisplay.setupPayload) = recent.payload
    /\ IsRequest =>
          /\ Len(ResponseLinesSent) = 1
          /\ last.events[1].call = "mg_send_response_line"
          /\ connection = last.before \o last.appended
          /\ "MG_F_SEND_AND_CLOSE" \in flags
          /\ last.flagsBefore \subseteq flags
          /\ recent.set =>
                /\ Head(last.appended) = ResponseLine("image/svg+xml")
                /\ Body = BadgeOf(recent.payload)
                /\ Renderable(recent.payload) =>
                      /\ Formats(Body)[1] = "<?xml"
                      /\ Formats(Body)[Len(Body)] = "</g></svg>"
                      /\ \E i \in 1..Len(last.events) :
                            /\ last.events[i].call = "qrcode_initText"
                            /\ last.events[i].text = recent.payload
                /\ ~Renderable(recent.payload) => Body = <<>>
          /\ ~recent.set =>
                last.appended =
                    << ResponseLine("text/text"),
                       Write("%s\r\n",
                             << << "No setup payload is set. Already paired?"
                                >> >>) >>
    /\ (IsHttpCall /\ ~IsRequest) =>
          /\ connection = last.before
          /\ last.appended = <<>>
          /\ last.events = <<>>
          /\ flags = last.flagsBefore

\* A request answered with the badge of the sample payload, on a
\* connection that had another flag set, after an earlier request was
\* answered with an empty body: the payload has been replaced since.
C11_Witness ==
    /\ IsRequest
    /\ recent.set /\ recent.payload = SamplePayload
    /\ Len(Body) > 10
    /\ flags = { "MG_F_USER_1", "MG_F_SEND_AND_CLOSE" }
    /\ failed

\* A request answered with the SVG response line and nothing else: the
\* stored payload's code is out of range, or the payload is malformed.
C11_WitnessOutOfRange ==
    /\ IsRequest /\ recent.set
    /\ HasShape(recent.payload) /\ ~Renderable(recent.payload)
    /\ last.appended = << ResponseLine("image/svg+xml") >>

C11_WitnessMalformed ==
    /\ IsRequest /\ recent.set
    /\ ~HasShape(recent.payload)
    /\ last.appended = << ResponseLine("image/svg+xml") >>

\* A request answered with the text reply: the most recent update event
\* carried a setup code and no payload.
C11_WitnessCleared ==
    /\ IsRequest /\ ~recent.set
    /\ setupDisplay.setupCodeIsSet
    /\ Len(last.appended) = 2

\* Another event than a request, on a connection with a flag set.
C11_WitnessOtherEvent ==
    /\ IsHttpCall /\ last.ev = "MG_EV_CLOSE"
    /\ flags = { "MG_F_USER_1" }
    /\ recent.set

====
